---- MODULE Spec2Model ----
(***************************************************************************)
(* Model of the GLT symbol code generator of spl/api:                      *)
(*   GltKernel      (spl/api/ast/glt.py)  builds the kernel function,      *)
(*   GltInterface   (spl/api/ast/glt.py)  builds the interface function,   *)
(*   DiscreteGltExpr (spl/api/glt.py)     the facade that validates the    *)
(*                                        keywords and calls the interface.*)
(*                                                                         *)
(* A form is described by what the generator reads of it: its dimension,   *)
(* the scalar fields it declares, the field atoms left in the reduced      *)
(* symbol, whether a mapping is given, its constants, its space variables  *)
(* and the shape and imaginary cells of the reduced symbol.                *)
(*                                                                         *)
(* Arguments, parameters and keywords are triples <<kind, a, b>>:          *)
(*   <<"arr_t", i, 0>>   coordinate array of axis i                        *)
(*   <<"coord", i, 0>>   i-th space variable of the symbol                 *)
(*   <<"degree", i, 0>>, <<"span", i, 0>>, <<"basis", i, 0>>  axis i       *)
(*   <<"coeff", f, 0>>   coefficient array of field f                      *)
(*   <<"mapcoeff", i, 0>> i-th mapping coefficient                         *)
(*   <<"mat", i, j>>     output cell (i,j)                                 *)
(*   <<"const", i, 0>>   i-th constant of the form                         *)
(*   <<"space", 0, 0>>, <<"basis_values", 0, 0>>, <<"mapping", 0, 0>>,     *)
(*   <<"field", f, 0>>   the opaque objects the interface receives         *)
(* A field is named by its number: sorting by name is sorting by number.   *)
(* Field names are unique within a form, and so are space names.           *)
(***************************************************************************)
EXTENDS Integers, Sequences, FiniteSets, TLC

VARIABLES form, grid, pc, kernel, arg, interface, error, ncalls, last, prev,
          backend, phi, second

vars == <<form, grid, pc, kernel, arg, interface, error, ncalls, last, prev,
          backend, phi, second>>

(* ------------------------------ bounds -------------------------------- *)

MaxDim == 3
MaxFields == 2
MaxConsts == 1
MaxRows == 2
MaxLen == 2
MaxCalls == 2
MaxTags == 2

Spaces == {1, 2}
Derivs == {0, 1}

\* the values random_string(8) can take
Tags == 1..MaxTags

\* backend['name']: the default of the facade and the three names _initialize tests
BackendNames == {"python", "pyccel", "numba", "pythran"}

(* ------------------------------ helpers ------------------------------- *)

Max(a, b) == IF a >= b THEN a ELSE b

MaxOf(S) == CHOOSE x \in S : \A y \in S : y <= x

MinOf(S) == CHOOSE x \in S : \A y \in S : x <= y

RECURSIVE SortedSeq(_)
SortedSeq(S) == IF S = {} THEN << >> ELSE <<MinOf(S)>> \o SortedSeq(S \ {MinOf(S)})

RECURSIVE Concat(_)
Concat(ss) == IF ss = << >> THEN << >> ELSE Head(ss) \o Concat(Tail(ss))

Range(s) == {s[i] : i \in 1..Len(s)}

Orderings(S) == {s \in [1..Cardinality(S) -> S] : Range(s) = S}

Axis(kind, dim) == [i \in 1..dim |-> <<kind, i, 0>>]

(* ------------------------------- forms -------------------------------- *)

\* cells are numbered from 0, as symbol_{i}{j} is
Cells(rows, cols) == (0..(rows - 1)) \X (0..(cols - 1))

FieldConfigs ==
  UNION { UNION { { [fields |-> D, space |-> sp, atoms |-> A] : A \in SUBSET (D \X Derivs) }
                  : sp \in [D -> Spaces] }
          : D \in SUBSET (1..MaxFields) }

Shapes ==
  { [isMatrix |-> FALSE, rows |-> 1, cols |-> 1, imag |-> im] : im \in SUBSET Cells(1, 1) }
  \cup UNION { UNION { { [isMatrix |-> TRUE, rows |-> r, cols |-> c, imag |-> im]
                          : im \in SUBSET Cells(r, c) }
                        : c \in 1..MaxRows }
               : r \in 1..MaxRows }

MkForm(dim, fc, mapping, nconsts, ncoords, sh) ==
  [dim |-> dim, fields |-> fc.fields, space |-> fc.space, atoms |-> fc.atoms,
   mapping |-> mapping, nconsts |-> nconsts, ncoords |-> ncoords,
   isMatrix |-> sh.isMatrix, rows |-> sh.rows, cols |-> sh.cols, imag |-> sh.imag]

ScalarReal == [isMatrix |-> FALSE, rows |-> 1, cols |-> 1, imag |-> {}]

NoFields == [fields |-> {}, space |-> << >>, atoms |-> {}]

OneField == [fields |-> {1}, space |-> (1 :> 1), atoms |-> {<<1, 0>>}]

\* every field/mapping/constant/coordinate structure, on a real scalar symbol
FormsByArguments ==
  UNION { { MkForm(dim, fc, m, nc, nx, ScalarReal)
            : fc \in FieldConfigs, m \in BOOLEAN, nc \in 0..MaxConsts, nx \in 0..dim }
          : dim \in 1..MaxDim }

\* every shape and every set of imaginary cells, with and without dependencies
FormsByShape ==
  { MkForm(dim, fc, m, 0, 0, sh)
    : dim \in 1..MaxDim, fc \in {NoFields, OneField}, m \in BOOLEAN, sh \in Shapes }

Forms == FormsByArguments \cup FormsByShape

(* ------------------------------ GltKernel ----------------------------- *)

\* self.coordinates = tuple(self.expr.space_variables)
Coordinates(f) == [i \in 1..f.ncoords |-> <<"coord", i, 0>>]

WithCoordinates(f) == Len(Coordinates(f)) > 0

\* self.constants = self.expr.constants
Constants(f) == [i \in 1..f.nconsts |-> <<"const", i, 0>>]

\* fields = sorted(form.fields, key=name): the fields the form declares
FormFields(f) == SortedSeq(f.fields)

\* the field atoms of the reduced symbol, a field or a derivative of a field
AtomicExprField(f) == f.atoms

\* field_atoms = tuple(expr.atoms(ScalarField)): the atoms of a set, in the
\* order the set happens to iterate
FieldAtomsSet(f) == {e[1] : e \in AtomicExprField(f)}

FieldAtomOrders(f) == Orderings(FieldAtomsSet(f))

\* fields_str = sorted(map(print_expression, atomic_expr_field))
FieldsStr(f) ==
  LET code(e) == e[1] * (1 + MaxOf(Derivs)) + e[2]
      codes == {code(e) : e \in AtomicExprField(f)}
      s == SortedSeq(codes)
  IN [k \in 1..Len(s) |-> CHOOSE e \in AtomicExprField(f) : code(e) = s[k]]

\* n_rows, n_cols: 1 x 1 unless the reduced symbol is a matrix
NRows(f) == IF f.isMatrix THEN f.rows ELSE 1

NCols(f) == IF f.isMatrix THEN f.cols ELSE 1

\* the loop over rows and columns that collects d_symbols[i,j]
GlobalMats(f) ==
  Concat([i \in 1..NRows(f) |-> [j \in 1..NCols(f) |-> <<"mat", i - 1, j - 1>>]])

DType(f, i, j) == IF <<i, j>> \in f.imag THEN "complex" ELSE "float"

\* faulty variant: one dtype for the whole symbol
GlobalMatsTypesWhole(f) ==
  [n \in 1..(NRows(f) * NCols(f)) |-> IF f.imag # {} THEN "complex" ELSE "float"]

GlobalMatsTypes(f) ==
  IF f.isMatrix
  THEN Concat([i \in 1..NRows(f) |-> [j \in 1..NCols(f) |-> DType(f, i - 1, j - 1)]])
  ELSE <<DType(f, 0, 0)>>

\* nderiv = max(1, the highest derivative order in any cell)
MaxNDeriv(f) ==
  Max(1, MaxOf({0} \cup {e[2] : e \in AtomicExprField(f)}))

\* faulty variant: every field expression handed to every group
EvalFieldOfGroupAll(f, s) ==
  [cls |-> "EvalArrayField", space |-> s, exprs |-> AtomicExprField(f), nderiv |-> 0]

\* one EvalArrayField per group of field atoms sharing a space name, the
\* groups taken in the order of the sorted space names
EvalFieldOfGroup(f, s) ==
  LET g_names == {x \in FieldAtomsSet(f) : f.space[x] = s}
      fields_expressions == {e \in AtomicExprField(f) : {e[1]} \cap g_names # {}}
      space == f.space[(CHOOSE e \in fields_expressions : TRUE)[1]]
  IN [cls |-> "EvalArrayField", space |-> space, exprs |-> fields_expressions,
      nderiv |-> 0]

EvalFields(f) ==
  IF AtomicExprField(f) = {} THEN << >>
  ELSE LET data == SortedSeq({f.space[x] : x \in FieldAtomsSet(f)})
       IN [k \in 1..Len(data) |-> EvalFieldOfGroup(f, data[k])]

\* the EvalArrayMapping, requested for self.spaces[0] (space 0) when a mapping is given
EvalMapping(f) ==
  IF f.mapping
  THEN <<[cls |-> "EvalArrayMapping", space |-> 0, exprs |-> {}, nderiv |-> MaxNDeriv(f)]>>
  ELSE << >>

\* self._dependencies += self.eval_fields; self._dependencies += [self.eval_mapping]
KernelDependencies(f) == EvalFields(f) \o EvalMapping(f)

\* eval_mapping.mapping_coeffs: one coefficient array per component of the mapping
MappingCoeffs(f) == IF f.mapping THEN Axis("mapcoeff", f.dim) ELSE << >>

\* fields_coeffs = variables(['coeff_{}'.format(f) for f in field_atoms])
FieldsCoeffs(f, order) == [k \in 1..Len(order) |-> <<"coeff", order[k], 0>>]

\* self._basic_args = (*arr_tis,)
KernelBasicArgs(f) == Axis("arr_t", f.dim)

\* GltKernel.build_arguments: basic_args + data (+ constants)
KernelBuildArguments(f, data) ==
  LET other == IF Len(Constants(f)) > 0 THEN data \o Constants(f) ELSE data
  IN KernelBasicArgs(f) \o other

\* degrees + spans + basis
GridArgs(f) == Axis("degree", f.dim) \o Axis("span", f.dim) \o Axis("basis", f.dim)

\* faulty variant: the grid arguments declared without the "if fields or mapping" guard
KernelFuncArgsAlwaysGrid(f, order) ==
  KernelBuildArguments(f,
    Coordinates(f) \o GridArgs(f) \o FieldsCoeffs(f, order) \o MappingCoeffs(f)
      \o GlobalMats(f))

\* "function args": here fields is symbols(fields_str), the field atoms of the symbol
KernelFuncArgs(f, order) ==
  LET args == IF Len(FieldsStr(f)) > 0 \/ f.mapping THEN GridArgs(f) ELSE << >>
  IN KernelBuildArguments(f,
       Coordinates(f) \o args \o FieldsCoeffs(f, order) \o MappingCoeffs(f)
         \o GlobalMats(f))

\* decorators / header of the FunctionDef, chosen by backend['name']
Decorators(bk) ==
  IF bk = "pyccel" THEN "types" ELSE IF bk = "numba" THEN "jit" ELSE ""

Header(bk) == IF bk = "pythran" THEN "pythran_types_header" ELSE ""

\* build_types_decorator is called for pyccel but is not among the names the
\* module imports: the call raises NameError
BackendError(bk) == IF bk = "pyccel" THEN "NameError" ELSE ""

\* FunctionDef(self.name, list(func_args), [], body, ...): no parameter of
\* the kernel function has a default value
KernelDefaults(f) == {}

(* --------------------------- kernel body ------------------------------ *)

\* a statement of a generated body; depth is the number of enclosing loops
Stmt(op, a, b, depth) == [op |-> op, a |-> a, b |-> b, depth |-> depth]

\* fields_val: one value buffer per entry of fields_str
FieldsVal(f) == FieldsStr(f)

\* eval_mapping.mapping_values / .elements: one per entry of the Jacobian matrix
MappingValues(f) ==
  IF f.mapping THEN [k \in 1..(f.dim * f.dim) |-> <<"mapval", k, 0>>] ELSE << >>

\* lengths k_i = len(arr_t_i), then symbol_ij[:,...] = 0. for every cell, then
\* the zeros() of every field and mapping value buffer
KernelPrelude(f) ==
  [i \in 1..f.dim |-> Stmt("len", i, 0, 0)]
  \o [k \in 1..Len(GlobalMats(f)) |-> Stmt("zero", GlobalMats(f)[k][2], GlobalMats(f)[k][3], 0)]
  \o (IF Len(FieldsStr(f)) > 0
      THEN [k \in 1..Len(FieldsVal(f)) |->
              Stmt("zeros_field", FieldsVal(f)[k][1], FieldsVal(f)[k][2], 0)]
      ELSE << >>)
  \o [k \in 1..Len(MappingValues(f)) |-> Stmt("zeros_mapping", k, 0, 0)]

\* the statements of the innermost loop: field values, mapping elements and
\* det_jac, then one Assign per output cell
KernelInner(f) ==
  [k \in 1..Len(FieldsVal(f)) |->
      Stmt("get_field", FieldsVal(f)[k][1], FieldsVal(f)[k][2], f.dim)]
  \o (IF f.mapping
      THEN [k \in 1..Len(MappingValues(f)) |-> Stmt("get_mapping", k, 0, f.dim)]
           \o <<Stmt("det_jac", 0, 0, f.dim), Stmt("print_elements", 0, 0, f.dim)>>
      ELSE << >>)
  \o [k \in 1..Len(GlobalMats(f)) |->
        Stmt("assign", GlobalMats(f)[k][2], GlobalMats(f)[k][3], f.dim)]

\* the loop nest, outermost axis first: For(i_k, Range(k_k)); x_k = arr_x_k[i_k]
\* when the symbol has space variables; t_k = arr_t_k[i_k]
RECURSIVE KernelLoops(_, _)
KernelLoops(f, i) ==
  IF i > f.dim THEN KernelInner(f)
  ELSE <<Stmt("for", i, 0, i - 1)>>
       \o (IF WithCoordinates(f) THEN <<Stmt("get_x", i, 0, i)>> ELSE << >>)
       \o <<Stmt("get_t", i, 0, i)>>
       \o KernelLoops(f, i + 1)

\* faulty variant: no sub-kernel call in the kernel body
KernelCallsNone(f) == << >>

\* each call is put in front of the body: the mapping call ends up first,
\* the field calls follow in reverse order of eval_fields
KernelCalls(f) ==
  [k \in 1..Len(EvalMapping(f)) |-> Stmt("call_mapping", 0, 0, 0)]
  \o [k \in 1..Len(EvalFields(f)) |-> Stmt("call_field", Len(EvalFields(f)) + 1 - k, 0, 0)]

\* faulty variant: the sub-kernel calls appended after the loop nest
KernelBodyCallsLast(f) == KernelPrelude(f) \o KernelLoops(f, 1) \o KernelCalls(f)

\* body = prelude + body
KernelBody(f) == KernelPrelude(f) \o KernelCalls(f) \o KernelLoops(f, 1)

\* the value buffers, as arguments
FieldsValArgs(f) ==
  [k \in 1..Len(FieldsVal(f)) |-> <<"fieldval", FieldsVal(f)[k][1], FieldsVal(f)[k][2]>>]

\* build_arguments of a sub-kernel: an ordered tuple made of the data it is given
EvalBuildArguments(data) == data

\* args = degrees + spans + basis + fields_coeffs + fields_val, the same for
\* every eval_field
EvalFieldCallArgs(f, order) ==
  EvalBuildArguments(GridArgs(f) \o FieldsCoeffs(f, order) \o FieldsValArgs(f))

\* args = degrees + spans + basis + mapping_coeffs + mapping_values
EvalMappingCallArgs(f) ==
  EvalBuildArguments(GridArgs(f) \o MappingCoeffs(f) \o MappingValues(f))

\* the FunctionCall statements, in the order of KernelCalls: the sub-kernel
\* called and the arguments of the call
KernelCallArgs(f, order) ==
  [k \in 1..Len(EvalMapping(f)) |->
      [target |-> EvalMapping(f)[k], args |-> EvalMappingCallArgs(f)]]
  \o [k \in 1..Len(EvalFields(f)) |->
        [target |-> EvalFields(f)[Len(EvalFields(f)) + 1 - k],
         args |-> EvalFieldCallArgs(f, order)]]

\* the names a statement of the kernel body reads or indexes: <<"k", i, 0>>
\* is the length k_i, <<"i", i, 0>> the index i_i, <<"t", i, 0>> and
\* <<"x", i, 0>> the coordinates of the point, <<"arr_x", i, 0>> the array
\* arr_x_i, <<"fieldsym", f, d>> and <<"mapelem", k, 0>> the values at the point
KernelReads(st, f, order) ==
  LET lengths == {<<"k", i, 0>> : i \in 1..f.dim}
      indices == {<<"i", i, 0>> : i \in 1..f.dim}
      elements == {<<"mapelem", k, 0>> : k \in 1..Len(MappingValues(f))}
  IN CASE st.op = "len" -> {<<"arr_t", st.a, 0>>}
       [] st.op = "zero" -> {<<"mat", st.a, st.b>>}
       [] st.op \in {"zeros_field", "zeros_mapping"} -> lengths
       [] st.op = "call_mapping" -> Range(EvalMappingCallArgs(f))
       [] st.op = "call_field" -> Range(EvalFieldCallArgs(f, order))
       [] st.op = "for" -> {<<"k", st.a, 0>>}
       [] st.op = "get_x" -> {<<"arr_x", st.a, 0>>, <<"i", st.a, 0>>}
       [] st.op = "get_t" -> {<<"arr_t", st.a, 0>>, <<"i", st.a, 0>>}
       [] st.op = "get_field" -> {<<"fieldval", st.a, st.b>>} \cup indices
       [] st.op = "get_mapping" -> {<<"mapval", st.a, 0>>} \cup indices
       [] st.op = "det_jac" -> elements
       [] st.op = "print_elements" -> elements
       [] st.op = "assign" ->
            {<<"mat", st.a, st.b>>} \cup indices
            \cup {<<"t", i, 0>> : i \in 1..f.dim}
            \cup {<<"x", i, 0>> : i \in 1..f.ncoords}
            \cup {<<"fieldsym", e[1], e[2]>> : e \in AtomicExprField(f)}
            \cup Range(Constants(f))
            \cup (IF f.mapping THEN elements \cup {<<"det_jac", 0, 0>>} ELSE {})
       [] OTHER -> {}

\* the names a statement of the kernel body assigns
KernelWrites(st, f) ==
  CASE st.op = "len" -> {<<"k", st.a, 0>>}
    [] st.op = "zeros_field" -> {<<"fieldval", st.a, st.b>>}
    [] st.op = "zeros_mapping" -> {<<"mapval", st.a, 0>>}
    [] st.op = "for" -> {<<"i", st.a, 0>>}
    [] st.op = "get_x" -> {<<"x", st.a, 0>>}
    [] st.op = "get_t" -> {<<"t", st.a, 0>>}
    [] st.op = "get_field" -> {<<"fieldsym", st.a, st.b>>}
    [] st.op = "get_mapping" -> {<<"mapelem", st.a, 0>>}
    [] st.op = "det_jac" -> {<<"det_jac", 0, 0>>}
    [] OTHER -> {}

\* GltKernel.__new__ followed by _initialize
NewKernel(f, order, tag, bk) ==
  [built |-> TRUE, cls |-> "GltKernel", tag |-> tag,
   decorators |-> Decorators(bk), header |-> Header(bk),
   defaults |-> KernelDefaults(f),
   n_rows |-> NRows(f), n_cols |-> NCols(f),
   coordinates |-> Coordinates(f), constants |-> Constants(f),
   eval_fields |-> EvalFields(f), eval_mapping |-> EvalMapping(f),
   dependencies |-> KernelDependencies(f),
   max_nderiv |-> MaxNDeriv(f),
   basic_args |-> KernelBasicArgs(f),
   fields_coeffs |-> FieldsCoeffs(f, order),
   mapping_coeffs |-> MappingCoeffs(f),
   global_mats |-> GlobalMats(f), global_mats_types |-> GlobalMatsTypes(f),
   func_args |-> KernelFuncArgs(f, order),
   body |-> KernelBody(f),
   calls |-> KernelCallArgs(f, order)]

NoKernel ==
  [built |-> FALSE, cls |-> "NoneType", tag |-> 0,
   decorators |-> "", header |-> "", defaults |-> {},
   n_rows |-> 0, n_cols |-> 0, coordinates |-> << >>, constants |-> << >>,
   eval_fields |-> << >>, eval_mapping |-> << >>, dependencies |-> << >>,
   max_nderiv |-> 0, basic_args |-> << >>, fields_coeffs |-> << >>,
   mapping_coeffs |-> << >>, global_mats |-> << >>, global_mats_types |-> << >>,
   func_args |-> << >>, body |-> << >>, calls |-> << >>]

(* ----------------------------- GltInterface --------------------------- *)

\* a statement of the interface body; dtype is set on allocations only
IStmt(op, a, b, dtype) == [op |-> op, a |-> a, b |-> b, dtype |-> dtype]

\* "if fields or mapping": here fields are the fields the form declares
InterfaceNeedsBasis(f) == f.fields # {} \/ f.mapping

\* self._basic_args = kernel.basic_args + (test_space, [basis_values])
InterfaceBasicArgs(f, k) ==
  IF InterfaceNeedsBasis(f)
  THEN k.basic_args \o <<<<"space", 0, 0>>, <<"basis_values", 0, 0>>>>
  ELSE k.basic_args \o <<<<"space", 0, 0>>>>

\* list(fields): the field objects, sorted by name
FieldObjects(f) == [n \in 1..Len(FormFields(f)) |-> <<"field", FormFields(f)[n], 0>>]

\* field_data = F._coeffs._data for F in fields: the coefficients of each field
FieldData(f) == [n \in 1..Len(FormFields(f)) |-> <<"coeff", FormFields(f)[n], 0>>]

\* faulty variant: the fields listed in the order of the kernel's coefficient arrays
InArgumentsAtomOrder(f, k) ==
  k.coordinates \o k.constants
    \o [n \in 1..Len(k.fields_coeffs) |-> <<"field", k.fields_coeffs[n][2], 0>>]

\* list(self.coordinates) + list(self.kernel.constants) + list(fields)
InArguments(f, k) == k.coordinates \o k.constants \o FieldObjects(f)

InoutArguments(k) == k.global_mats

\* the arguments of FunctionCall(kernel.func, args)
InterfaceCallArgs(f, k) ==
  LET args == IF f.fields # {} \/ f.mapping THEN GridArgs(f) ELSE << >>
  IN KernelBuildArguments(f,
       k.coordinates \o args \o FieldData(f) \o k.mapping_coeffs \o k.global_mats)

\* faulty variant: the lengths passed one by one whatever the dimension
ZerosShapeArgsFlat(f) == [i \in 1..f.dim |-> <<i>>]

\* zeros(*lengths, dtype): lengths is wrapped in one Tuple when dim > 1
ZerosShapeArgs(f) ==
  IF f.dim > 1 THEN <<[i \in 1..f.dim |-> i]>> ELSE [i \in 1..f.dim |-> <<i>>]

\* faulty variant: the tuple returned whatever the number of cells
ReturnOperandTuple(k) == [single |-> FALSE, mats |-> k.global_mats]

\* the operand of the Return statement: M itself for one cell, else the tuple
ReturnOperand(k) ==
  IF Len(k.global_mats) = 1
  THEN [single |-> TRUE, mats |-> <<k.global_mats[1]>>]
  ELSE [single |-> FALSE, mats |-> k.global_mats]

\* prelude + body of the interface function
InterfaceBody(f, k) ==
  [i \in 1..f.dim |-> IStmt("len", i, 0, "")]
  \o <<IStmt("degrees", 0, 0, "")>>
  \o (IF InterfaceNeedsBasis(f)
      THEN <<IStmt("spans", 0, 0, ""), IStmt("basis", 0, 0, "")>> ELSE << >>)
  \o (IF f.mapping
      THEN [i \in 1..Len(k.mapping_coeffs) |-> IStmt("mapping_coeff", i, 0, "")]
      ELSE << >>)
  \o [n \in 1..Len(k.global_mats) |->
        IStmt("zeros_if_nil", k.global_mats[n][2], k.global_mats[n][3],
              k.global_mats_types[n])]
  \o <<IStmt("call_kernel", 0, 0, "")>>
  \o <<IStmt("return", 0, 0, "")>>

\* faulty variant: the space variables placed before the constants
InterfaceFuncArgsInOrder(f, k) ==
  InterfaceBasicArgs(f, k)
    \o (IF f.mapping THEN <<<<"mapping", 0, 0>>>> ELSE << >>)
    \o k.coordinates \o k.constants \o FieldObjects(f) \o k.global_mats

\* the parameters of the interface function; every output is declared M=None
InterfaceFuncArgs(f, k) ==
  LET mapping == IF f.mapping THEN <<<<"mapping", 0, 0>>>> ELSE << >>
      args == IF Len(k.constants) > 0
              THEN (IF Len(k.coordinates) > 0
                    THEN mapping \o k.constants \o k.coordinates \o FieldObjects(f)
                         \o k.global_mats
                    ELSE mapping \o k.constants \o FieldObjects(f) \o k.global_mats)
              ELSE (IF Len(k.coordinates) > 0
                    THEN mapping \o k.coordinates \o FieldObjects(f) \o k.global_mats
                    ELSE mapping \o FieldObjects(f) \o k.global_mats)
  IN InterfaceBasicArgs(f, k) \o args

\* faulty variant: no parameter declared with a default value
InterfaceDefaultsNone(k) == {}

\* mats = [Assign(M, Nil()) for M in global_mats]: every output parameter
\* is declared M=None, and no other parameter has a default value
InterfaceDefaults(k) == Range(k.global_mats)

\* faulty variant: the interface given a tag of its own
InterfaceTagOwn(k) == (k.tag % MaxTags) + 1

\* SplBasic.__new__(cls, kernel.tag, ...): the interface takes the tag of its kernel
InterfaceTag(k) == k.tag

NoInterface ==
  [built |-> FALSE, tag |-> 0, defaults |-> {},
   dependencies |-> << >>, basic_args |-> << >>,
   in_arguments |-> << >>, inout_arguments |-> << >>,
   call_args |-> << >>, func_args |-> << >>, body |-> << >>,
   zeros_args |-> << >>, returns |-> [single |-> FALSE, mats |-> << >>]]

InitializeInterface(f, k) ==
  [built |-> TRUE, tag |-> InterfaceTag(k), defaults |-> InterfaceDefaults(k),
   dependencies |-> <<"kernel">>,
   basic_args |-> InterfaceBasicArgs(f, k),
   in_arguments |-> InArguments(f, k), inout_arguments |-> InoutArguments(k),
   call_args |-> InterfaceCallArgs(f, k), func_args |-> InterfaceFuncArgs(f, k),
   body |-> InterfaceBody(f, k),
   zeros_args |-> ZerosShapeArgs(f), returns |-> ReturnOperand(k)]

\* faulty variant: any code-generation object accepted
IsGltKernelAny(cls) == cls # "NoneType"

\* GltInterface.__new__: the isinstance check comes before anything else
IsGltKernel(cls) == cls = "GltKernel"

NewInterface(f, k, cls) ==
  IF ~IsGltKernel(cls)
  THEN [error |-> "TypeError", obj |-> NoInterface]
  ELSE [error |-> "", obj |-> InitializeInterface(f, k)]

(* ------------------------ running the generated code ------------------ *)

\* the index tuples of a grid with lens[i] points on axis i
InGrid(idx, lens) ==
  DOMAIN idx = DOMAIN lens /\ \A i \in DOMAIN lens : 1 <= idx[i] /\ idx[i] <= lens[i]

Indices(lens) == {idx \in [DOMAIN lens -> 1..MaxLen] : InGrid(idx, lens)}

\* the value of cell (i,j) of the symbol at a grid point: never zero, and
\* different from cell to cell and from point to point
SymVal(i, j, idx) ==
  LET RECURSIVE Sum(_)
      Sum(n) == IF n = 0 THEN 0 ELSE idx[n] + Sum(n - 1)
  IN 1 + 100 * i + 10 * j + Sum(Len(idx))

\* the value the field sub-kernel stores at a grid point for the atom e (a
\* field, or a derivative of it) of a field with the coefficients c: the
\* basis functions at a point add up to one and their derivatives to zero
FieldValue(c, e, idx) ==
  LET RECURSIVE Sum(_)
      Sum(n) == IF n = 0 THEN 0 ELSE idx[n] + Sum(n - 1)
  IN IF e[2] = 0 THEN c[1 + (Sum(Len(idx)) % 2)] ELSE c[2] - c[1]

\* the value of the atom e of the field that is one everywhere
UnitValue(e) == IF e[2] = 0 THEN 1 ELSE 0

\* the value of cell (i,j) at a grid point when the field atoms of the symbol
\* take the values fsym: SymVal is the value of the symbol in which every
\* field is replaced by the constant 1, and the symbol is linear in its atoms
SymValWith(f, i, j, idx, fsym) ==
  LET atoms == SortedSeq({e[1] * (1 + MaxOf(Derivs)) + e[2] : e \in DOMAIN fsym})
      atom(n) == CHOOSE e \in DOMAIN fsym : e[1] * (1 + MaxOf(Derivs)) + e[2] = atoms[n]
      RECURSIVE Terms(_)
      Terms(n) == IF n = 0 THEN 0
                  ELSE (fsym[atom(n)][idx] - UnitValue(atom(n))) + Terms(n - 1)
  IN SymVal(i, j, idx) + Terms(Len(atoms))

Buffer(id, shape, dtype, val) == [id |-> id, shape |-> shape, dtype |-> dtype, val |-> val]

\* None
NoBuf == Buffer(0, << >>, "", << >>)

\* numpy.zeros(shape, dtype=dtype) for the shape argument the interface passes
NumpyZeros(args, dtype, lens, id) ==
  LET shape == [n \in 1..Len(args[1]) |-> lens[args[1][n]]]
  IN Buffer(id, shape, dtype, [idx \in Indices(shape) |-> 0])

\* one statement of the kernel body on the buffer of its output cell:
\* symbol[:,...] = 0. in the prelude, symbol[i1,...] = expr in the loop nest
\* fsym holds, per field atom, the values F = F_values[i1,...] read at each point
ExecStmtAccumulate(st, buf, lens, f, fsym) ==
  IF st.op = "assign"
  THEN [buf EXCEPT !.val = [idx \in DOMAIN buf.val |->
          IF InGrid(idx, lens) THEN buf.val[idx] + SymValWith(f, st.a, st.b, idx, fsym)
          ELSE buf.val[idx]]]
  ELSE buf

ExecStmt(st, buf, lens, f, fsym) ==
  IF st.op = "zero"
  THEN [buf EXCEPT !.val = [idx \in DOMAIN buf.val |-> 0]]
  ELSE IF st.op = "assign"
  THEN [buf EXCEPT !.val = [idx \in DOMAIN buf.val |->
          IF InGrid(idx, lens) THEN SymValWith(f, st.a, st.b, idx, fsym)
          ELSE buf.val[idx]]]
  ELSE buf

\* a statement on the value buffers fval of the field atoms: zeros(lengths)
\* in the prelude, then the call of the sub-kernel of a group, which fills
\* the buffers of its group from the coefficient arrays bound to coeff_F
ExecFieldStmt(st, fval, k, coeffs, lens) ==
  IF st.op = "zeros_field"
  THEN [e \in DOMAIN fval \cup {<<st.a, st.b>>} |->
          IF e = <<st.a, st.b>> THEN [idx \in Indices(lens) |-> 0] ELSE fval[e]]
  ELSE IF st.op = "call_field"
  THEN [e \in DOMAIN fval |->
          IF e \in k.eval_fields[st.a].exprs /\ e[1] \in DOMAIN coeffs
          THEN [idx \in Indices(lens) |-> FieldValue(coeffs[e[1]], e, idx)]
          ELSE fval[e]]
  ELSE fval

\* the kernel body run on the buffers bound to its output parameters and on
\* the coefficient arrays bound to its coefficient parameters; a statement
\* of the loop nest stands for its execution at every grid point
RECURSIVE ExecKernel(_, _, _, _, _, _, _)
ExecKernel(body, bufs, fval, fsym, f, k, env) ==
  IF body = << >> THEN bufs
  ELSE LET st == Head(body)
           c == <<"mat", st.a, st.b>>
           e == <<st.a, st.b>>
           bufs2 == IF st.op \in {"zero", "assign"} /\ c \in DOMAIN bufs
                    THEN [bufs EXCEPT ![c] = ExecStmt(st, bufs[c], env.lens, f, fsym)]
                    ELSE bufs
           fval2 == ExecFieldStmt(st, fval, k, env.coeffs, env.lens)
           fsym2 == IF st.op = "get_field" /\ e \in DOMAIN fval
                    THEN [x \in DOMAIN fsym \cup {e} |-> IF x = e THEN fval[e] ELSE fsym[x]]
                    ELSE fsym
       IN ExecKernel(Tail(body), bufs2, fval2, fsym2, f, k, env)

IsMat(a) == a[1] = "mat"

MatParams(args) == {args[p] : p \in {q \in 1..Len(args) : IsMat(args[q])}}

\* the interface body run on the outputs the caller supplied (NoBuf for None);
\* n numbers the call, so that every allocation is a new buffer
\* fields gives, per field object passed, its coefficient array F._coeffs._data
RunInterface(f, k, iface, supplied, fields, lens, n) ==
  LET cells == Range(iface.inout_arguments)
      allocs == SelectSeq(iface.body, LAMBDA st : st.op = "zeros_if_nil")
      allocOf(c) == (CHOOSE q \in 1..Len(allocs) : <<"mat", allocs[q].a, allocs[q].b>> = c)
      allocated == {c \in cells : supplied[c] = NoBuf
                                  /\ \E q \in 1..Len(allocs) : <<"mat", allocs[q].a, allocs[q].b>> = c}
      env == [c \in cells |->
                IF c \in allocated
                THEN NumpyZeros(iface.zeros_args, allocs[allocOf(c)].dtype, lens,
                                10 * n + allocOf(c))
                ELSE supplied[c]]
      arity == Len(iface.call_args) = Len(k.func_args)
      \* positional binding of the kernel's output parameters
      bound == [kp \in MatParams(k.func_args) |->
                  LET p == CHOOSE q \in 1..Len(k.func_args) : k.func_args[q] = kp
                  IN IF arity /\ iface.call_args[p] \in cells THEN env[iface.call_args[p]]
                     ELSE NoBuf]
      \* positional binding of the kernel's coefficient parameters
      CoeffPos == {q \in 1..Len(k.func_args) : k.func_args[q][1] = "coeff"}
      coeffs == [x \in {k.func_args[q][2] : q \in CoeffPos} |->
                   LET q == CHOOSE q \in CoeffPos : k.func_args[q][2] = x
                   IN IF arity /\ iface.call_args[q][1] = "coeff"
                         /\ iface.call_args[q][2] \in DOMAIN fields
                      THEN fields[iface.call_args[q][2]]
                      ELSE [m \in 1..2 |-> 0]]
      after == ExecKernel(k.body, bound, << >>, << >>, f, k,
                          [lens |-> lens, coeffs |-> coeffs])
      final == [c \in cells |->
                  IF \E kp \in DOMAIN bound : bound[kp].id = env[c].id
                  THEN after[CHOOSE kp \in DOMAIN bound : bound[kp].id = env[c].id]
                  ELSE env[c]]
  IN [status |-> IF arity THEN "ok" ELSE "TypeError",
      allocated |-> allocated,
      passed |-> env,
      result |-> IF arity
                 THEN [q \in 1..Len(iface.returns.mats) |-> final[iface.returns.mats[q]]]
                 ELSE << >>,
      single |-> arity /\ iface.returns.single]

(* --------------------------- DiscreteGltExpr -------------------------- *)

\* faulty variant: a missing mandatory keyword skipped like a missing optional one
CheckArgumentsLenient(iface, kwargs) ==
  [error |-> "",
   kwargs |-> {key \in Range(iface.in_arguments) \cup Range(iface.inout_arguments) :
                 key \in kwargs}]

\* faulty variant: every keyword of the caller forwarded
CheckArgumentsForwardAll(iface, kwargs) ==
  IF \E n \in 1..Len(iface.in_arguments) : iface.in_arguments[n] \notin kwargs
  THEN [error |-> "KeyError", kwargs |-> {}]
  ELSE [error |-> "", kwargs |-> kwargs]

\* _check_arguments on the set of keywords the caller gave
CheckArguments(iface, kwargs) ==
  IF \E n \in 1..Len(iface.in_arguments) : iface.in_arguments[n] \notin kwargs
  THEN [error |-> "KeyError", kwargs |-> {}]
  ELSE [error |-> "",
        kwargs |-> Range(iface.in_arguments)
                   \cup {key \in Range(iface.inout_arguments) : key \in kwargs}]

\* the positional arguments of self.func(*args, **kwargs): t1, t2, Vh, then
\* basis_values and the mapping when present
EvaluateArgs(f) ==
  <<<<"arr_t", 1, 0>>, <<"arr_t", 2, 0>>, <<"space", 0, 0>>>>
  \o (IF f.fields # {} \/ f.mapping THEN <<<<"basis_values", 0, 0>>>> ELSE << >>)
  \o (IF f.mapping THEN <<<<"mapping", 0, 0>>>> ELSE << >>)

\* Python's binding of a call to the interface function: positional arguments
\* fill the leading parameters, keywords go by name, only outputs have a default
BindsInterface(params, args, kwargs) ==
  /\ Len(args) <= Len(params)
  /\ \A p \in 1..Len(args) : params[p] = args[p] /\ params[p] \notin kwargs
  /\ kwargs \subseteq Range(params)
  /\ \A p \in (Len(args) + 1)..Len(params) : params[p] \in kwargs \/ IsMat(params[p])

(* ------------------------------ the system ---------------------------- *)

NoCall ==
  [via |-> "", status |-> "", args |-> << >>, kwargs |-> {}, forwarded |-> {},
   invoked |-> FALSE,
   source |-> << >>, supplied |-> << >>, allocated |-> {}, passed |-> << >>,
   result |-> << >>, single |-> FALSE]

\* a FemField's coefficients, and the field whose coefficients are all one
CoeffVectors == [1..2 -> 0..1]

Ones == [n \in 1..2 |-> 1]

NoSecond == [built |-> FALSE, kernel |-> NoKernel, interface |-> NoInterface]

InitState(F, G, B, P) ==
  /\ form \in F
  /\ grid \in [1..form.dim -> G]
  /\ backend \in B
  /\ phi \in [form.fields -> P]
  /\ second = NoSecond
  /\ pc = "start"
  /\ kernel = NoKernel
  /\ arg = ""
  /\ interface = NoInterface
  /\ error = ""
  /\ ncalls = 0
  /\ last = NoCall
  /\ prev = << >>

\* the facade's default backend, and fields whose coefficients are all one
InitWith(F, G) == InitState(F, G, {"python"}, {Ones})

\* GltKernel(expr, spaces, mapping=..., backend=...)
CreateKernel ==
  /\ pc = "start"
  /\ IF BackendError(backend) # ""
     THEN /\ kernel' = kernel
          /\ error' = BackendError(backend)
          /\ pc' = "nokernel"
     ELSE /\ \E order \in FieldAtomOrders(form), tag \in Tags :
               kernel' = NewKernel(form, order, tag, backend)
          /\ error' = error
          /\ pc' = "kernel"
  /\ UNCHANGED <<form, grid, arg, interface, ncalls, last, prev, backend, phi, second>>

\* GltInterface(obj, mapping=...), obj being the kernel, one of the objects
\* that are no GltKernel, or None
CreateInterface ==
  /\ pc = "kernel"
  /\ \E cls \in {"GltKernel", "EvalArrayField", "NoneType"} :
       LET r == NewInterface(form, kernel, cls)
       IN /\ arg' = cls
          /\ interface' = r.obj
          /\ error' = r.error
          /\ pc' = IF r.error = "" THEN "ready" ELSE "failed"
  /\ UNCHANGED <<form, grid, kernel, ncalls, last, prev, backend, phi, second>>

\* DiscreteGltExpr._create_ast run once more on the same expression, spaces,
\* mapping and backend: a second kernel and a second interface
CreateAst ==
  /\ pc = "ready"
  /\ ~second.built
  /\ \E order \in FieldAtomOrders(form), tag \in Tags :
       LET k == NewKernel(form, order, tag, backend)
       IN second' = [built |-> TRUE, kernel |-> k,
                     interface |-> NewInterface(form, k, k.cls).obj]
  /\ UNCHANGED <<form, grid, pc, kernel, arg, interface, error, ncalls, last, prev,
                 backend, phi>>

\* the buffers a caller can pass for the outputs: nothing (None), a buffer of
\* its own holding old values, or the buffer the previous call returned
Sources == {src \in [Range(interface.inout_arguments) -> {"none", "own", "prev"}] :
              \A c \in DOMAIN src : src[c] = "prev" => c \in DOMAIN prev}

OwnBuffer(f, k, c, lens) ==
  LET n == CHOOSE q \in 1..Len(k.global_mats) : k.global_mats[q] = c
  IN Buffer(n, lens, k.global_mats_types[n], [idx \in Indices(lens) |-> 7])

Supplied(src, lens) ==
  [c \in DOMAIN src |->
     IF src[c] = "none" THEN NoBuf
     ELSE IF src[c] = "prev" THEN prev[c]
     ELSE OwnBuffer(form, kernel, c, lens)]

Returned(r) ==
  IF r.status = "ok"
  THEN [c \in Range(interface.returns.mats) |->
          r.result[CHOOSE q \in 1..Len(r.result) : interface.returns.mats[q] = c]]
  ELSE prev

\* a direct call of the generated interface function, every parameter given
CallInterface ==
  /\ pc = "ready"
  /\ ncalls < MaxCalls
  /\ \E src \in Sources :
       LET r == RunInterface(form, kernel, interface, Supplied(src, grid), phi, grid, ncalls + 1)
       IN /\ last' = [via |-> "direct", status |-> r.status, args |-> << >>,
                      kwargs |-> {},
                      forwarded |-> {}, invoked |-> TRUE, source |-> src,
                      supplied |-> Supplied(src, grid), allocated |-> r.allocated,
                      passed |-> r.passed, result |-> r.result, single |-> r.single]
          /\ prev' = Returned(r)
  /\ ncalls' = ncalls + 1
  /\ UNCHANGED <<form, grid, pc, kernel, arg, interface, error, backend, phi, second>>

\* DiscreteGltExpr.evaluate(*grids, **kwargs); the caller gives one grid per
\* axis of the form or two grids, leaves out at most one mandatory keyword and
\* may add one that names nothing; "t1,t2 = args" accepts two grids only
Evaluate ==
  /\ pc = "ready"
  /\ ncalls < MaxCalls
  /\ \E src \in Sources, extra \in BOOLEAN, ngrids \in {2, form.dim},
        missing \in {{}} \cup {{a} : a \in Range(interface.in_arguments)} :
       LET kwargs == (Range(interface.in_arguments) \ missing)
                     \cup {c \in DOMAIN src : src[c] # "none"}
                     \cup (IF extra THEN {<<"extra", 0, 0>>} ELSE {})
           chk == CheckArguments(interface, kwargs)
           binds == BindsInterface(interface.func_args, EvaluateArgs(form), chk.kwargs)
           r == RunInterface(form, kernel, interface, Supplied(src, grid), phi, grid, ncalls + 1)
       IN IF chk.error # ""
          THEN /\ last' = [NoCall EXCEPT !.via = "facade", !.status = chk.error,
                                         !.kwargs = kwargs, !.source = src]
               /\ prev' = prev
          ELSE IF ngrids # 2
          THEN /\ last' = [NoCall EXCEPT !.via = "facade", !.status = "ValueError",
                                         !.kwargs = kwargs, !.forwarded = chk.kwargs,
                                         !.source = src]
               /\ prev' = prev
          ELSE IF ~binds
          THEN /\ last' = [NoCall EXCEPT !.via = "facade", !.status = "BindError",
                                         !.args = EvaluateArgs(form),
                                         !.kwargs = kwargs, !.forwarded = chk.kwargs,
                                         !.source = src]
               /\ prev' = prev
          ELSE /\ last' = [via |-> "facade", status |-> r.status,
                           args |-> EvaluateArgs(form), kwargs |-> kwargs,
                           forwarded |-> chk.kwargs, invoked |-> TRUE, source |-> src,
                           supplied |-> Supplied(src, grid), allocated |-> r.allocated,
                           passed |-> r.passed, result |-> r.result, single |-> r.single]
               /\ prev' = Returned(r)
  /\ ncalls' = ncalls + 1
  /\ UNCHANGED <<form, grid, pc, kernel, arg, interface, error, backend, phi, second>>

\* code generation, for every structure of form
Init == InitWith(Forms, {1})

Next == CreateKernel \/ CreateInterface

Spec == Init /\ [][Next]_vars

\* code generation followed by calls of the generated interface: a real and a
\* complex scalar symbol, and a 1 x 2 matrix symbol, real or with a complex cell
ShapesForCalls ==
  {s \in Shapes : ~s.isMatrix}
  \cup {s \in Shapes : s.isMatrix /\ s.rows = 1 /\ s.cols = 2 /\ s.imag \subseteq {<<0, 1>>}}

FormsForCalls ==
  { MkForm(dim, fc, m, nc, 0, sh)
    : dim \in 1..MaxDim,
      fc \in {NoFields, OneField, [OneField EXCEPT !.atoms = {}]},
      m \in BOOLEAN, nc \in 0..MaxConsts,
      sh \in ShapesForCalls }

\* direct calls of the generated interface, on every grid
InitCall == InitWith(FormsForCalls, 1..MaxLen)

NextCall == CreateKernel \/ CreateInterface \/ CallInterface

SpecCall == InitCall /\ [][NextCall]_vars

\* calls through the facade
InitFacade == InitWith(FormsForCalls, {MaxLen})

NextFacade == CreateKernel \/ CreateInterface \/ Evaluate

SpecFacade == InitFacade /\ [][NextFacade]_vars

\* calls through the facade with every coefficient vector of the field
FormsForFields ==
  { MkForm(dim, fc, m, nc, 0, sh)
    : dim \in {1, 2},
      fc \in {NoFields, OneField, [OneField EXCEPT !.atoms = {<<1, 0>>, <<1, 1>>}]},
      m \in BOOLEAN, nc \in {0, 1},
      sh \in {s \in ShapesForCalls : s.imag = {}} }

InitField == InitState(FormsForFields, {MaxLen}, {"python"}, CoeffVectors)

NextField == CreateKernel \/ CreateInterface \/ Evaluate

SpecField == InitField /\ [][NextField]_vars

\* two builds from the same inputs, under every backend name
FormsForBuilds ==
  { MkForm(dim, fc, m, nc, nx, ScalarReal)
    : dim \in {1, MaxDim}, fc \in FieldConfigs, m \in BOOLEAN,
      nc \in {0, MaxConsts}, nx \in {0, 1} }
  \cup { MkForm(1, NoFields, FALSE, 0, 0, sh) : sh \in Shapes }

InitBuild == InitState(FormsForBuilds, {1}, BackendNames, {Ones})

NextBuild == CreateKernel \/ CreateInterface \/ CreateAst

SpecBuild == InitBuild /\ [][NextBuild]_vars

(* ------------------------------- claims ------------------------------- *)

Kinds(args) == {args[p][1] : p \in 1..Len(args)}

CellCount == IF form.isMatrix THEN form.rows * form.cols ELSE 1

\* the cell at row-major position n
RowMajorCell(n) ==
  IF form.isMatrix
  THEN <<"mat", (n - 1) \div form.cols, (n - 1) % form.cols>>
  ELSE <<"mat", 0, 0>>

\* C1: for every form, the argument list the interface builds for its call to
\* the kernel has the length of the kernel's parameter list, and position k of
\* both refers to the same logical input.
C1_CallMatchesParameters ==
  interface.built => interface.call_args = kernel.func_args

\* C6 as stated: a field-free, mapping-free form gives a kernel with no
\* dependency whose parameters are only coordinate arrays and output buffers.
C6_OnlyCoordinatesAndOutputs ==
  (kernel.built /\ form.fields = {} /\ ~form.mapping)
    => /\ kernel.dependencies = << >>
       /\ Kinds(kernel.func_args) \subseteq {"arr_t", "coord", "mat"}

\* C6 amended: a field-free, mapping-free form gives a kernel with no
\* dependency whose parameters are the coordinate arrays, the space variables
\* of the symbol, the output cells and then the constants of the form (all of
\* them), and no degree, span, basis table or coefficient array.
C6_CoordinatesOutputsConstants ==
  (kernel.built /\ form.fields = {} /\ ~form.mapping)
    => /\ kernel.dependencies = << >>
       /\ Len(kernel.func_args) = form.dim + form.ncoords + CellCount + form.nconsts
       /\ \A p \in 1..Len(kernel.func_args) :
            LET a == kernel.func_args[p]
                q == p - form.dim - form.ncoords
            IN IF p <= form.dim THEN a = <<"arr_t", p, 0>>
               ELSE IF q <= 0 THEN a = <<"coord", p - form.dim, 0>>
               ELSE IF q <= CellCount THEN a = RowMajorCell(q)
               ELSE a = <<"const", q - CellCount, 0>>

C6_Witness ==
  /\ kernel.built /\ form.fields = {} /\ ~form.mapping
  /\ form.dim = 3 /\ form.nconsts > 0 /\ form.ncoords > 0

\* C7: the dependency list is one field sub-kernel per distinct space among
\* the field atoms of the reduced symbol, each requested with the space of its
\* group and exactly the field expressions of that group, followed by one
\* mapping sub-kernel when a mapping is given and none otherwise; so it is
\* non-empty iff the symbol depends on a field or on the mapping.
C7_Dependencies ==
  kernel.built =>
    LET deps == kernel.dependencies
        spaces == {form.space[e[1]] : e \in form.atoms}
        nf == Cardinality(spaces)
    IN /\ Len(deps) = nf + (IF form.mapping THEN 1 ELSE 0)
       /\ \A n \in 1..nf :
            /\ deps[n].cls = "EvalArrayField"
            /\ deps[n].space \in spaces
            /\ deps[n].exprs = {e \in form.atoms : form.space[e[1]] = deps[n].space}
            /\ \A m \in 1..nf : m # n => deps[m].space # deps[n].space
       /\ form.mapping => deps[nf + 1].cls = "EvalArrayMapping"
       /\ (deps # << >>) <=> (form.atoms # {} \/ form.mapping)

C7_Witness ==
  /\ kernel.built /\ form.mapping
  /\ Len(kernel.dependencies) = 3
  /\ \E e1 \in form.atoms, e2 \in form.atoms :
       e1 # e2 /\ form.space[e1[1]] = form.space[e2[1]]

\* C8: the list of output dtypes has one entry per output cell, aligned in
\* row-major order with the output buffers; the entry of cell (i,j) is complex
\* exactly when cell (i,j) of the symbol holds the imaginary unit and real
\* otherwise; the interface allocates each omitted output with the dtype of
\* its own cell.
C8_CellDtypes ==
  /\ kernel.built =>
       /\ Len(kernel.global_mats_types) = CellCount
       /\ Len(kernel.global_mats) = CellCount
       /\ \A n \in 1..CellCount :
            LET c == kernel.global_mats[n]
            IN /\ c = RowMajorCell(n)
               /\ kernel.global_mats_types[n]
                    = IF <<c[2], c[3]>> \in form.imag THEN "complex" ELSE "float"
  /\ interface.built =>
       LET allocs == SelectSeq(interface.body, LAMBDA st : st.op = "zeros_if_nil")
       IN /\ Len(allocs) = CellCount
          /\ \A n \in 1..CellCount :
               /\ <<"mat", allocs[n].a, allocs[n].b>> = RowMajorCell(n)
               /\ allocs[n].dtype
                    = IF <<allocs[n].a, allocs[n].b>> \in form.imag THEN "complex" ELSE "float"

C8_Witness ==
  /\ interface.built /\ form.isMatrix /\ form.rows = 2 /\ form.cols = 2
  /\ form.imag = {<<0, 1>>}
  /\ kernel.global_mats_types = <<"float", "complex", "float", "float">>

\* C9: the kernel has exactly n_rows * n_cols output buffers in row-major
\* order (one for a scalar symbol); the interface returns the single buffer
\* itself when there is one output cell and otherwise the tuple of all the
\* buffers in that same order.
C9_OutputsAndReturn ==
  /\ kernel.built =>
       /\ kernel.n_rows * kernel.n_cols = CellCount
       /\ Len(kernel.global_mats) = CellCount
       /\ \A n \in 1..CellCount : kernel.global_mats[n] = RowMajorCell(n)
  /\ interface.built =>
       /\ interface.returns.single <=> (CellCount = 1)
       /\ Len(interface.returns.mats) = CellCount
       /\ \A n \in 1..CellCount : interface.returns.mats[n] = RowMajorCell(n)

C9_Witness ==
  /\ interface.built /\ form.isMatrix /\ form.rows = 2 /\ form.cols = 2
  /\ ~interface.returns.single
  /\ interface.returns.mats[2] = <<"mat", 0, 1>>
  /\ interface.returns.mats[3] = <<"mat", 1, 0>>

\* C10: GltInterface given an object that is no GltKernel raises TypeError at
\* once: no interface object, no function body, nothing added to a
\* dependency list.
C10_TypeErrorFirst ==
  (pc \in {"ready", "failed"}) =>
    /\ (arg # "GltKernel") <=> (error = "TypeError")
    /\ (arg # "GltKernel") =>
         /\ pc = "failed"
         /\ ~interface.built
         /\ interface.body = << >> /\ interface.func_args = << >>
         /\ interface.dependencies = << >>
         /\ Len(kernel.dependencies)
              = Cardinality({form.space[e[1]] : e \in form.atoms})
                + (IF form.mapping THEN 1 ELSE 0)

C10_Witness ==
  /\ error = "TypeError" /\ arg = "NoneType" /\ kernel.built
  /\ kernel.dependencies # << >>

OutputCells == Range(interface.inout_arguments)

\* what a call given None for every output returns
FreshResult ==
  RunInterface(form, kernel, interface, [c \in OutputCells |-> NoBuf], phi, grid, 0).result

ReusesPreviousResult ==
  /\ ncalls = 2 /\ last.status = "ok"
  /\ \A c \in OutputCells : last.source[c] = "prev"

C3_ConditionalAllocation ==
  last.invoked =>
    \A c \in OutputCells :
      /\ last.supplied[c] = NoBuf =>
           /\ c \in last.allocated
           /\ last.passed[c].shape = grid
           /\ last.passed[c].dtype
                = (IF <<c[2], c[3]>> \in form.imag THEN "complex" ELSE "float")
           /\ DOMAIN last.passed[c].val = Indices(grid)
           /\ \A idx \in Indices(grid) : last.passed[c].val[idx] = 0
           /\ \A d \in OutputCells : d # c => last.passed[d].id # last.passed[c].id
      /\ last.supplied[c] # NoBuf =>
           /\ c \notin last.allocated
           /\ last.passed[c] = last.supplied[c]
      /\ last.status = "ok" =>
           \E q \in 1..Len(last.result) :
             /\ interface.returns.mats[q] = c
             /\ last.result[q].id = last.passed[c].id

C3_Witness ==
  /\ last.invoked /\ last.status = "ok"
  /\ form.dim = 2 /\ grid = <<2, 1>>
  /\ last.source = (<<"mat", 0, 0>> :> "own" @@ <<"mat", 0, 1>> :> "none")
  /\ last.allocated = {<<"mat", 0, 1>>}
  /\ last.result[1].id = last.supplied[<<"mat", 0, 0>>].id

\* C4: evaluate raises KeyError whenever the keywords lack a name of
\* in_arguments; the interface routine is then never invoked and nothing
\* stands in for the missing argument.
C4_MissingInRaisesKeyError ==
  (last.via = "facade" /\ \E a \in Range(interface.in_arguments) : a \notin last.kwargs)
    => /\ last.status = "KeyError"
       /\ ~last.invoked
       /\ last.forwarded = {}
       /\ last.allocated = {} /\ last.result = << >>

C4_Witness ==
  /\ last.status = "KeyError"
  /\ Len(interface.in_arguments) = 2
  /\ interface.in_arguments[1] \in last.kwargs
  /\ interface.in_arguments[2] \notin last.kwargs
  /\ \E c \in OutputCells : c \in last.kwargs

\* C5: when every name of in_arguments is given, _check_arguments succeeds
\* for any subset of the inout names given, and what is forwarded is every in
\* name plus exactly the inout names given; a keyword naming neither is
\* dropped without raising.
C5_ForwardedKeywords ==
  (last.via = "facade" /\ Range(interface.in_arguments) \subseteq last.kwargs)
    => /\ last.status # "KeyError"
       /\ last.forwarded
            = Range(interface.in_arguments) \cup (OutputCells \cap last.kwargs)

C5_Witness ==
  /\ last.via = "facade" /\ last.status = "ok"
  /\ <<"extra", 0, 0>> \in last.kwargs
  /\ <<"extra", 0, 0>> \notin last.forwarded
  /\ interface.in_arguments # << >>
  /\ <<"mat", 0, 0>> \in last.forwarded
  /\ <<"mat", 0, 1>> \in OutputCells \ last.forwarded

\* C11: two builds from the same symbol, spaces, mapping and backend yield
\* interfaces with the same in_arguments, element by element (the space
\* variables, then the constants, then the declared fields sorted by name),
\* and the same inout_arguments (the output cells, row-major).
C11_SameClassification ==
  (interface.built /\ second.built) =>
    /\ second.interface.in_arguments = interface.in_arguments
    /\ second.interface.inout_arguments = interface.inout_arguments
    /\ interface.in_arguments
         = [i \in 1..form.ncoords |-> <<"coord", i, 0>>]
           \o [i \in 1..form.nconsts |-> <<"const", i, 0>>]
           \o [n \in 1..Cardinality(form.fields) |-> <<"field", SortedSeq(form.fields)[n], 0>>]
    /\ interface.inout_arguments = [n \in 1..CellCount |-> RowMajorCell(n)]

C11_Witness ==
  /\ interface.built /\ second.built
  /\ Cardinality(form.fields) = 2
  /\ form.nconsts > 0 /\ form.ncoords > 0
  /\ second.kernel.fields_coeffs # kernel.fields_coeffs
  /\ second.kernel.tag # kernel.tag

\* C13 as stated: two constructions from the same form, spaces, mapping and
\* backend obtain the same tag, and the interface carries the tag of the
\* kernel it owns.
C13_TagFromInputs ==
  /\ interface.built => interface.tag = kernel.tag
  /\ second.built =>
       /\ second.kernel.tag = kernel.tag
       /\ second.interface.tag = second.kernel.tag

\* C13 amended: the tag is drawn by random_string(8) at each construction of
\* a kernel, so two constructions from the same inputs need not obtain the
\* same tag; in each pair the interface carries the tag of the kernel it owns.
C13_InterfaceCarriesKernelTag ==
  /\ kernel.built => kernel.tag \in Tags
  /\ interface.built => interface.tag = kernel.tag
  /\ second.built =>
       /\ second.kernel.tag \in Tags
       /\ second.interface.tag = second.kernel.tag

C13_Witness ==
  /\ interface.built /\ second.built
  /\ second.kernel.tag # kernel.tag
  /\ second.interface.tag # interface.tag
  /\ second.kernel.body = kernel.body

\* C19: for each of the backend names pyccel, numba and pythran the
\* construction of the kernel completes, and the three functions have the
\* body and the parameter list the default backend gives, differing only in
\* metadata: a types decorator for pyccel, a jit marker for numba, a types
\* header for pythran.
C19_BackendsShareBody ==
  (pc # "start" /\ backend \in {"pyccel", "numba", "pythran"}) =>
    /\ kernel.built
    /\ kernel.body = KernelBody(form)
    /\ \E order \in FieldAtomOrders(form) : kernel.func_args = KernelFuncArgs(form, order)
    /\ kernel.decorators
         = (IF backend = "pyccel" THEN "types" ELSE IF backend = "numba" THEN "jit" ELSE "")
    /\ (kernel.header # "") <=> (backend = "pythran")

\* C12 as stated: no parameter of the kernel function or of the interface
\* function has a default value.
C12_NoDefaults ==
  /\ kernel.built => kernel.defaults = {}
  /\ interface.built => interface.defaults = {}

\* C12 amended: no parameter of the kernel function has a default value; in
\* the interface function the output buffers, which are the last parameters,
\* are declared with the default None and every other parameter is required.
C12_OnlyOutputsOptional ==
  /\ kernel.built => kernel.defaults = {}
  /\ interface.built =>
       /\ interface.defaults = Range(interface.inout_arguments)
       /\ \A p \in 1..Len(interface.func_args) :
            (interface.func_args[p] \in interface.defaults)
              <=> (p > Len(interface.func_args) - CellCount)

C12_Witness ==
  /\ interface.built /\ CellCount = 4
  /\ interface.in_arguments # << >>
  /\ Cardinality(interface.defaults) = 4

\* C14: for every combination of field presence and mapping presence, the
\* positional arguments evaluate passes (the grids, the space, the basis
\* values iff a field or the mapping is present, the mapping iff present)
\* match one to one, in number and order, the leading parameters of the
\* interface function, and every remaining parameter is an in or inout name,
\* given by keyword.
C14_PositionalMatch ==
  (last.via = "facade" /\ last.status # "KeyError") =>
    LET params == interface.func_args
    IN /\ last.status \notin {"ValueError", "BindError"}
       /\ Len(last.args) <= Len(params)
       /\ \A n \in 1..Len(last.args) : params[n] = last.args[n]
       /\ last.args = interface.basic_args
                        \o (IF form.mapping THEN <<<<"mapping", 0, 0>>>> ELSE << >>)
       /\ \A n \in (Len(last.args) + 1)..Len(params) :
            params[n] \in Range(interface.in_arguments) \cup Range(interface.inout_arguments)

\* the same on the forms of dimension 2
C14_PositionalMatch2D == (form.dim = 2) => C14_PositionalMatch

\* C15 as stated: the parameters of the interface function are the mapping if
\* present, then the constants, then the coordinates, then the field objects,
\* then the output buffers.
C15_FlatSignature ==
  interface.built =>
    interface.func_args
      = (IF form.mapping THEN <<<<"mapping", 0, 0>>>> ELSE << >>)
        \o [i \in 1..form.nconsts |-> <<"const", i, 0>>]
        \o [i \in 1..form.ncoords |-> <<"coord", i, 0>>]
        \o [n \in 1..Cardinality(form.fields) |-> <<"field", SortedSeq(form.fields)[n], 0>>]
        \o [n \in 1..CellCount |-> RowMajorCell(n)]

\* C15 amended: the parameters of the interface function are the coordinate
\* arrays arr_t1..arr_td, the space, the basis values iff the form declares a
\* field or a mapping is given, and then the mapping if present, the
\* constants, the space variables, the field objects sorted by name and the
\* output buffers, in that order for every combination.
C15_SignatureAfterBasicArgs ==
  interface.built =>
    interface.func_args
      = [i \in 1..form.dim |-> <<"arr_t", i, 0>>]
        \o <<<<"space", 0, 0>>>>
        \o (IF form.fields # {} \/ form.mapping THEN <<<<"basis_values", 0, 0>>>> ELSE << >>)
        \o (IF form.mapping THEN <<<<"mapping", 0, 0>>>> ELSE << >>)
        \o [i \in 1..form.nconsts |-> <<"const", i, 0>>]
        \o [i \in 1..form.ncoords |-> <<"coord", i, 0>>]
        \o [n \in 1..Cardinality(form.fields) |-> <<"field", SortedSeq(form.fields)[n], 0>>]
        \o [n \in 1..CellCount |-> RowMajorCell(n)]

C15_Witness ==
  /\ interface.built /\ form.mapping
  /\ form.nconsts > 0 /\ form.ncoords > 0 /\ Cardinality(form.fields) = 2
  /\ form.dim = 2

PreludeOps == {"len", "zero", "zeros_field", "zeros_mapping"}

CallOps == {"call_field", "call_mapping"}

\* C17: in the kernel body the prelude (the length of every coordinate array,
\* the zeroing of every output cell, the allocation of every field and mapping
\* value buffer) comes before everything else; every sub-kernel call comes
\* after the allocations and before the loop nest, hence before every
\* assignment of an output cell; inside the loop nest the field values, the
\* mapping elements and the Jacobian determinant are read before the output
\* cells are assigned.
C17_BodyOrder ==
  kernel.built =>
    LET B == kernel.body
        Pos(ops) == {p \in 1..Len(B) : B[p].op \in ops}
        Before(X, Y) == \A p \in X, q \in Y : p < q
    IN /\ Before(Pos(PreludeOps), Pos({B[p].op : p \in 1..Len(B)} \ PreludeOps))
       /\ Cardinality(Pos({"len"})) = form.dim
       /\ {<<"mat", B[p].a, B[p].b>> : p \in Pos({"zero"})} = Range(kernel.global_mats)
       /\ {<<B[p].a, B[p].b>> : p \in Pos({"zeros_field"})} = form.atoms
       /\ Cardinality(Pos({"zeros_mapping"})) = Len(MappingValues(form))
       /\ Cardinality(Pos(CallOps)) = Len(kernel.dependencies)
       /\ Before(Pos({"zeros_field", "zeros_mapping"}), Pos(CallOps))
       /\ Before(Pos(CallOps), Pos({"for", "get_field", "get_mapping", "assign"}))
       /\ \A p \in Pos(CallOps) : B[p].depth = 0
       /\ Before(Pos({"get_field", "get_mapping", "det_jac"}), Pos({"assign"}))
       /\ Before(Pos({"get_mapping"}), Pos({"det_jac"}))
       /\ {<<B[p].a, B[p].b>> : p \in Pos({"get_field"})} = form.atoms
       /\ form.mapping <=> Pos({"det_jac"}) # {}
       /\ \A p \in Pos({"get_field", "get_mapping", "det_jac", "assign"}) :
            B[p].depth = form.dim
       /\ {<<"mat", B[p].a, B[p].b>> : p \in Pos({"assign"})} = Range(kernel.global_mats)

C17_Witness ==
  /\ kernel.built /\ form.mapping /\ form.dim = 2
  /\ Len(kernel.eval_fields) = 2
  /\ Cardinality(form.atoms) = 3

\* C18: the call to each field sub-kernel is given the degrees, spans and
\* basis tables plus the coefficient arrays and the value buffers of the
\* fields of its own group and none of another group; the call to the mapping
\* sub-kernel is given them plus the mapping coefficients and the mapping
\* value buffers only.
C18_OwnSlice ==
  kernel.built =>
    \A n \in 1..Len(kernel.calls) :
      LET c == kernel.calls[n]
          own == {e[1] : e \in c.target.exprs}
          given == Range(c.args) \ Range(GridArgs(form))
      IN IF c.target.cls = "EvalArrayMapping"
         THEN given = Range(kernel.mapping_coeffs) \cup Range(MappingValues(form))
         ELSE given = {<<"coeff", x, 0>> : x \in own}
                      \cup {<<"fieldval", e[1], e[2]>> : e \in c.target.exprs}

\* C20: every name the kernel body reads or indexes is a parameter of the
\* kernel function or is assigned by an earlier statement of the body.
C20_ReadsAreDefined ==
  kernel.built =>
    \E order \in FieldAtomOrders(form) :
      /\ kernel.fields_coeffs = FieldsCoeffs(form, order)
      /\ \A p \in 1..Len(kernel.body) :
           \A name \in KernelReads(kernel.body[p], form, order) :
             \/ name \in Range(kernel.func_args)
             \/ \E q \in 1..(p - 1) : name \in KernelWrites(kernel.body[q], form)

\* the same on the symbols without space variables
C20_ReadsAreDefinedNoCoordinates == (form.ncoords = 0) => C20_ReadsAreDefined

\* the same when the symbol's field atoms belong to one space
C18_OwnSliceOneGroup == (Len(kernel.eval_fields) <= 1) => C18_OwnSlice

\* the form in which every field is replaced by the constant 1
WithoutField(f) == [f EXCEPT !.fields = {}, !.space = << >>, !.atoms = {}]

\* evaluate() of the symbol of WithoutField(form) on the same grid, given
\* the constants of the last call and no field
EvaluateWithoutField ==
  LET fe == WithoutField(form)
      ke == NewKernel(fe, << >>, 1, "python")
      ie == InitializeInterface(fe, ke)
      chk == CheckArguments(ie, {key \in last.kwargs : key[1] = "const"})
      r == RunInterface(fe, ke, ie, [c \in Range(ie.inout_arguments) |-> NoBuf],
                        << >>, grid, 0)
  IN IF chk.error # "" THEN [status |-> chk.error, result |-> << >>]
     ELSE IF ~BindsInterface(ie.func_args, EvaluateArgs(fe), chk.kwargs)
     THEN [status |-> "BindError", result |-> << >>]
     ELSE [status |-> r.status, result |-> r.result]

FieldTermAllOnes ==
  /\ last.via = "facade" /\ last.status = "ok"
  /\ form.atoms = {<<1, 0>>}
  /\ phi[1] = Ones

\* C16: on the same spaces and the same grid, an evaluation of the symbol of
\* a form with a scalar field term F*u*v, given a field F whose coefficients
\* are all one, returns the same matrices as the evaluation of the symbol of
\* the form in which F is replaced by the constant 1, given no field.
C16_UnitFieldIsConstant ==
  FieldTermAllOnes =>
    /\ EvaluateWithoutField.status = "ok"
    /\ Len(last.result) = Len(EvaluateWithoutField.result)
    /\ \A q \in 1..Len(last.result) :
         /\ last.result[q].shape = EvaluateWithoutField.result[q].shape
         /\ last.result[q].val = EvaluateWithoutField.result[q].val

C16_Witness ==
  /\ FieldTermAllOnes
  /\ form.dim = 2 /\ ~form.mapping
  /\ <<"coeff", 1, 0>> \in Range(kernel.func_args)
  /\ \E q \in 1..Len(last.result) : \E idx \in DOMAIN last.result[q].val :
       last.result[q].val[idx] # 0

\* the field is what makes the difference: with coefficients all zero the
\* two evaluations differ
C16_FieldMatters ==
  (last.via = "facade" /\ last.status = "ok" /\ form.atoms = {<<1, 0>>}
     /\ phi[1] = [n \in 1..2 |-> 0]) =>
    \E q \in 1..Len(last.result) :
       last.result[q].val # EvaluateWithoutField.result[q].val

====
